---------------------------- MODULE Spec2Model ----------------------------
(***************************************************************************)
(* A model of scripts/create_build_metadata.py: one invocation of main()   *)
(* as a sequence of steps, with the outcomes of the subprocesses, of the   *)
(* filesystem and of the clock chosen by the environment.                  *)
(*                                                                         *)
(* A Python str is a sequence of one-character strings; None is a value    *)
(* that is no such sequence.  A path is a sequence of str components.      *)
(***************************************************************************)
EXTENDS Integers, Sequences, FiniteSets

\* ------------------------------------------------------------------ bounds
\* longest stdout of the built binary that the environment produces
MaxOut == 3
\* the clock readings are 0 .. MaxTime (seconds after the first instant)
MaxTime == 1
\* invocations of the tool in the fixed-environment specification
MaxRuns == 2

\* ----------------------------------------------------------------- strings
Whitespace == {" ", "\n"}
Digits == <<"0", "1", "2", "3", "4", "5", "6", "7", "8", "9">>
Char == {"v", "x", "a", "b", "t", "u", "n", "k", "o", "w", "r", "d", "s", "-", ":", "T", "Z"}
            \cup {Digits[i] : i \in DOMAIN Digits} \cup Whitespace

None == <<"None">>

IsStr(x) == \A i \in DOMAIN x : x[i] \in Char

Empty == <<>>
Unknown == <<"u", "n", "k", "n", "o", "w", "n">>

\* str.strip(): leading and trailing whitespace removed
RECURSIVE LStrip(_)
LStrip(s) == IF s # <<>> /\ Head(s) \in Whitespace THEN LStrip(Tail(s)) ELSE s

RECURSIVE RStrip(_)
RStrip(s) ==
    IF s # <<>> /\ s[Len(s)] \in Whitespace THEN RStrip(SubSeq(s, 1, Len(s) - 1)) ELSE s

Strip(s) == RStrip(LStrip(s))

\* str.split() with no separator: the maximal runs of non-whitespace, in order
RECURSIVE SplitAcc(_, _, _)
SplitAcc(s, cur, acc) ==
    IF s = <<>>
    THEN IF cur = <<>> THEN acc ELSE Append(acc, cur)
    ELSE IF Head(s) \in Whitespace
         THEN SplitAcc(Tail(s), <<>>, IF cur = <<>> THEN acc ELSE Append(acc, cur))
         ELSE SplitAcc(Tail(s), Append(cur, Head(s)), acc)

Split(s) == SplitAcc(s, <<>>, <<>>)

\* bool(x) of a str or None
Truthy(x) == x # None /\ x # Empty

\* x, without the "or"
OrEmpty_Id(x) == x

\* x or ""
OrEmpty(x) == IF Truthy(x) THEN x ELSE Empty

\* all str over the alphabet cs of length at most n
RECURSIVE StrsUpTo(_, _)
StrsUpTo(cs, n) ==
    IF n = 0 THEN {<<>>}
    ELSE LET shorter == StrsUpTo(cs, n - 1)
         IN  shorter \cup {Append(s, c) : s \in shorter, c \in cs}

\* ---------------------------------------------------------- command line
\* the values an option is given on the command line; None: the option is omitted
ExtensionNames == {<<"s">>}
BuildTypes == {<<"r">>, <<"d">>}
Platforms == {<<"x">>}
CiToolsVersions == {<<"v", "1">>}
WorkflowRunIds == {<<"4", "2">>}

ArgSpace ==
    [extension_name : ExtensionNames \cup {None},
     build_type : BuildTypes \cup {None},
     platform : Platforms \cup {None},
     ci_tools_version : CiToolsVersions \cup {None},
     workflow_run_id : WorkflowRunIds \cup {None}]

\* --platform left optional
Required_NoPlatform == {"extension_name", "build_type"}

\* parser.add_argument(..., required=True)
Required == {"extension_name", "build_type", "platform"}

\* parse_args() accepts the command line
ArgsValid(a) == \A k \in Required : a[k] # None

\* ------------------------------------------------------------ environment
\* An outcome of a probe is <<kind, stdout>>.
GitProbes == {"describe", "duckdb_commit", "tag", "commit", "short_commit"}
BinProbes == {"duckdb", "duckdb.exe"}
FsProbes == {"mkdir", "open", "dump"}
Probes == {"duckdb_dir"} \cup GitProbes \cup BinProbes \cup FsProbes

\* what a git command prints when it exits 0
GitStdout(p) ==
    CASE p = "describe" -> {<<"v", "1", "-", "0", "\n">>}
      [] p \in {"duckdb_commit", "commit"} -> {<<"a", "b", "\n">>}
      [] p = "short_commit" -> {<<"a", "\n">>}
      [] p = "tag" -> {<<>>, <<"t", "\n">>, Unknown \o <<"\n">>}

\* subprocess.run(command, cwd=cwd, capture_output=True, text=True, check=True):
\* exit 0, CalledProcessError, FileNotFoundError, PermissionError, or no return
\* at all (no timeout is given)
GitOutcomes(p) ==
    {<<"ok", o>> : o \in GitStdout(p)}
        \cup {<<k, <<>>>> : k \in {"nonzero", "notfound", "permission", "hang"}}

\* what the built binary prints
BinChars == {"v", " "}
BinStdout == StrsUpTo(BinChars, MaxOut)

\* binary_path.exists() is false ("missing"), or subprocess.run([path, "--version"],
\* capture_output=True, text=True, timeout=5): a return code, TimeoutExpired,
\* FileNotFoundError, PermissionError, or another OSError (exec format error)
BinOutcomes ==
    {<<"ok", o>> : o \in BinStdout}
        \cup {<<k, <<>>>> : k \in {"missing", "nonzero", "timeout", "notfound",
                                   "permission", "oserror"}}

DirOutcomes == {<<k, <<>>>> : k \in {"absent", "nogit", "repo"}}
FsOutcomes == {<<k, <<>>>> : k \in {"ok", "oserror"}}

Outcomes(p) ==
    CASE p = "duckdb_dir" -> DirOutcomes
      [] p \in GitProbes -> GitOutcomes(p)
      [] p \in BinProbes -> BinOutcomes
      [] p \in FsProbes -> FsOutcomes

\* env[p] = Free: the environment answers probe p anew at every call
Free == <<"free", <<>>>>

\* ------------------------------------------------------------- filesystem
Build == <<"build">>
MetadataJson == <<"metadata.json">>

\* output_dir = repo_root / "build" / args.build_type
OutputDir(build_type) == <<Build, build_type>>

\* the file directly under build/
OutputFile_NoBuildType(build_type) == <<Build, MetadataJson>>

\* output_file = output_dir / "metadata.json"
OutputFile(build_type) == Append(OutputDir(build_type), MetadataJson)

AllDirs == {<<Build>>} \cup {OutputDir(b) : b \in BuildTypes}
AllFiles == {<<Build, b, MetadataJson>> : b \in BuildTypes} \cup {<<MetadataJson>>, <<Build, MetadataJson>>}

Absent == [exists |-> FALSE, data |-> <<>>]
\* a file left by an earlier build
Stale == [exists |-> TRUE, data |-> <<<<"stale", <<"null">>>>>>]

\* ------------------------------------------------------------- the record
\* a value as JSON text: null, or the str between quotes
JsonValue(v) == IF v = None THEN <<"null">> ELSE <<"\"">> \o v \o <<"\"">>

\* json.dump(metadata, f, indent=2) and json.dumps(metadata, indent=2): one JSON
\* member <<key, text of the value>> per member of the dict, in the dict's order
Dumps(m) == [i \in DOMAIN m |-> <<m[i][1], JsonValue(m[i][2])>>]

\* datetime.now(timezone.utc).strftime("%Y-%m-%dT%H:%M:%SZ") at t seconds after
\* 2026-01-01T00:00:00Z (t < 60)
Strftime(t) ==
    <<"2", "0", "2", "6", "-", "0", "1", "-", "0", "1", "T", "0", "0", ":", "0", "0", ":",
      Digits[(t \div 10) + 1], Digits[(t % 10) + 1], "Z">>

NoInfo == [version |-> None, commit |-> None]
NoDuckdbInfo == [git_describe |-> None, version |-> None, commit |-> None]

VARIABLES
    args,            \* argparse's namespace (None: option omitted)
    env,             \* the environment's answers to the probes
    now,             \* the clock
    run,             \* the number of this invocation
    pc,              \* the position of the invocation
    git_describe, commit, actual_version, idx,           \* get_duckdb_info's locals
    dir_seen,        \* what get_duckdb_info found at ./duckdb ("": not looked at yet)
    probed,          \* the probes of the function that is running: <<probe, outcome>>
    duckdb_info,
    tag, short_commit,                                   \* get_extension_info's locals
    extension_info,
    metadata,        \* the dict, as the sequence of its <<key, value>> members
    dirs, files,     \* the directories and files under the working directory
    files0,          \* the files when the invocation started
    stdout, stderr,
    exit_code,       \* -1 while the process runs
    raised,          \* the exception on its way to main's handler: <<probe, kind>>
    calls,           \* the subprocesses spawned by this invocation, in order
    touched,         \* the paths this invocation opened for writing
    first            \* how the previous invocation ended: its exit code, dict and writes

vars == <<args, env, now, run, pc, git_describe, commit, actual_version, idx, dir_seen, probed,
          duckdb_info, tag, short_commit, extension_info, metadata, dirs, files, files0,
          stdout, stderr, exit_code, raised, calls, touched, first>>

\* ----------------------------------------------------------- initial state
\* the state of a process that has not started yet
Fresh ==
    /\ pc = "parse"
    /\ git_describe = None /\ commit = None /\ actual_version = None
    /\ idx = 0 /\ dir_seen = "" /\ probed = <<>>
    /\ duckdb_info = NoDuckdbInfo
    /\ tag = None /\ short_commit = None
    /\ extension_info = NoInfo
    /\ metadata = <<>>
    /\ stdout = <<>> /\ stderr = <<>>
    /\ exit_code = -1
    /\ raised = <<>>
    /\ calls = <<>>
    /\ touched = {}

\* the working directory after an earlier build of one build type: its metadata
\* file is there, the other build types have none
InitialFiles == [f \in AllFiles |-> IF f = <<Build, <<"r">>, MetadataJson>> THEN Stale ELSE Absent]

DirsOf(fs) == UNION {{<<Build>>, SubSeq(f, 1, 2)} : f \in {g \in AllFiles : fs[g].exists /\ Len(g) = 3}}

Init ==
    /\ args \in ArgSpace
    /\ env = [p \in Probes |-> Free]
    /\ now = 0
    /\ run = 1
    /\ files = InitialFiles
    /\ dirs = DirsOf(files)
    /\ files0 = files
    /\ first = [exit_code |-> -1, metadata |-> <<>>, touched |-> {}]
    /\ Fresh

\* the environment answers probe p with outcome o
Answers(p, o) == o \in Outcomes(p) /\ (env[p] = Free \/ env[p] = o)

\* ------------------------------------------------------------------ main()
Usage == "usage: the following arguments are required"

\* args = parser.parse_args(): a missing required option ends the process with
\* status 2 and a usage message; otherwise create_metadata(args) is entered
ParseArgs ==
    /\ pc = "parse"
    /\ IF ArgsValid(args)
       THEN /\ pc' = "duckdb_dir"
            /\ UNCHANGED <<stderr, exit_code>>
       ELSE /\ pc' = "exit"
            /\ stderr' = Append(stderr, Usage)
            /\ exit_code' = 2
    /\ UNCHANGED <<args, env, now, run, git_describe, commit, actual_version, idx, dir_seen, probed,
                   duckdb_info, tag, short_commit, extension_info, metadata, dirs, files,
                   files0, stdout, raised, calls, touched, first>>

\* -------------------------------------------------------- run_git_command
\* the exceptions run_git_command catches
GitCaught == {"nonzero", "notfound"}

\* outcome o lets run_git_command return
GitReturns(o) == o[1] = "ok" \/ o[1] \in GitCaught

\* the value run_git_command returns
RunGitCommand(o) == IF o[1] = "ok" THEN Strip(o[2]) ELSE Unknown

\* where a call of run_git_command with outcome o leaves the process: at next, in
\* main's handler, or waiting for git for ever
AfterGit(p, o, next) ==
    /\ calls' = Append(calls, p)
    /\ IF GitReturns(o)
       THEN pc' = next /\ raised' = raised
       ELSE IF o[1] = "hang"
            THEN pc' = "blocked" /\ raised' = raised
            ELSE pc' = "except" /\ raised' = <<p, o[1]>>

\* --------------------------------------------------------- get_duckdb_info
WarnNotFound == "Warning: DuckDB submodule not found"
WarnNotGit == "Warning: DuckDB directory is not a git repository"

AllUnknown == [git_describe |-> Unknown, version |-> Unknown, commit |-> Unknown]

\* only duckdb_dir.exists() is looked at
HasRepo_DirOnly(o) == o[1] \in {"repo", "nogit"}

\* duckdb_dir.exists() and (duckdb_dir / ".git").exists(): the submodule is there
HasRepo(o) == o[1] = "repo"

\* lines 32-41: without the directory or its .git, warn and return the placeholders
CheckDuckdbDir ==
    /\ pc = "duckdb_dir"
    /\ \E o \in DirOutcomes :
        /\ Answers("duckdb_dir", o)
        /\ dir_seen' = o[1]
        /\ IF HasRepo(o)
           THEN /\ pc' = "describe"
                /\ UNCHANGED <<stderr, duckdb_info>>
           ELSE /\ pc' = "tag"
                /\ stderr' = Append(stderr, IF o[1] = "absent" THEN WarnNotFound ELSE WarnNotGit)
                /\ duckdb_info' = AllUnknown
    /\ UNCHANGED <<args, env, now, run, git_describe, commit, actual_version, idx, probed,
                   tag, short_commit, extension_info, metadata, dirs, files, files0,
                   stdout, exit_code, raised, calls, touched, first>>

\* git_describe = run_git_command(duckdb_dir, ["git", "describe", ...])
DuckdbDescribe ==
    /\ pc = "describe"
    /\ \E o \in GitOutcomes("describe") :
        /\ Answers("describe", o)
        /\ AfterGit("describe", o, "duckdb_commit")
        /\ probed' = Append(probed, <<"describe", o>>)
        /\ git_describe' = IF GitReturns(o) THEN RunGitCommand(o) ELSE git_describe
    /\ UNCHANGED <<args, env, now, run, commit, actual_version, idx, dir_seen,
                   duckdb_info, tag, short_commit, extension_info, metadata, dirs, files,
                   files0, stdout, stderr, exit_code, touched, first>>

\* commit = run_git_command(duckdb_dir, ["git", "rev-parse", "HEAD"]); then
\* actual_version = "unknown" and the loop over binary_paths starts
DuckdbCommit ==
    /\ pc = "duckdb_commit"
    /\ \E o \in GitOutcomes("duckdb_commit") :
        /\ Answers("duckdb_commit", o)
        /\ AfterGit("duckdb_commit", o, "binary")
        /\ probed' = Append(probed, <<"duckdb_commit", o>>)
        /\ IF GitReturns(o)
           THEN commit' = RunGitCommand(o) /\ actual_version' = Unknown /\ idx' = 1
           ELSE UNCHANGED <<commit, actual_version, idx>>
    /\ UNCHANGED <<args, env, now, run, git_describe, dir_seen,
                   duckdb_info, tag, short_commit, extension_info, metadata, dirs, files,
                   files0, stdout, stderr, exit_code, touched, first>>

\* binary_paths, by file name under build/<build_type>/
BinaryPaths == <<"duckdb", "duckdb.exe">>

\* the outcomes in which subprocess.run raises
BinExceptions == {"timeout", "notfound", "permission", "oserror"}

\* except (subprocess.TimeoutExpired, FileNotFoundError, PermissionError): pass
BinCaught == {"timeout", "notfound", "permission"}

\* the exception of outcome o leaves get_duckdb_info
BinRaises(o) == o[1] \in BinExceptions \ BinCaught

\* parts = result.stdout.strip().split()
Parts(out) == Split(Strip(out))

\* result.returncode == 0 and result.stdout, and parts is not empty
BinSucceeds(o) == o[1] = "ok" /\ o[2] # Empty /\ Parts(o[2]) # <<>>

\* actual_version = parts[0]
ParseVersion(out) == Parts(out)[1]

\* a candidate that timed out is run again
NextIdx_RetryTimeout(i, o) == IF o[1] = "timeout" THEN i ELSE i + 1

\* the candidate the loop turns to after candidate i
NextIdx(i, o) == i + 1

\* the loop without its break
LoopEnds_NoBreak(i, o) == NextIdx(i, o) > Len(BinaryPaths)

\* the loop ends after candidate i: break, or no candidate is left
LoopEnds(i, o) == BinSucceeds(o) \/ NextIdx(i, o) > Len(BinaryPaths)

\* one iteration of the loop over binary_paths (lines 53-69)
ProbeBinary ==
    /\ pc = "binary"
    /\ \E o \in BinOutcomes :
        /\ Answers(BinaryPaths[idx], o)
        /\ probed' = Append(probed, <<BinaryPaths[idx], o>>)
        /\ calls' = IF o[1] = "missing" THEN calls ELSE Append(calls, BinaryPaths[idx])
        /\ IF BinRaises(o)
           THEN /\ pc' = "except"
                /\ raised' = <<BinaryPaths[idx], o[1]>>
                /\ UNCHANGED <<actual_version, idx>>
           ELSE /\ raised' = raised
                /\ actual_version' = IF BinSucceeds(o) THEN ParseVersion(o[2]) ELSE actual_version
                /\ idx' = NextIdx(idx, o)
                /\ pc' = IF LoopEnds(idx, o) THEN "duckdb_return" ELSE "binary"
    /\ UNCHANGED <<args, env, now, run, git_describe, commit, dir_seen,
                   duckdb_info, tag, short_commit, extension_info, metadata, dirs, files,
                   files0, stdout, stderr, exit_code, touched, first>>

\* return {"git_describe": git_describe, "version": actual_version, "commit": commit}
DuckdbReturn ==
    /\ pc = "duckdb_return"
    /\ duckdb_info' = [git_describe |-> git_describe, version |-> actual_version,
                       commit |-> commit]
    /\ git_describe' = None /\ commit' = None /\ actual_version' = None
    /\ idx' = 0 /\ probed' = <<>>
    /\ pc' = "tag"
    /\ UNCHANGED <<args, env, now, run, dir_seen, tag, short_commit, extension_info,
                   metadata, dirs, files, files0, stdout, stderr, exit_code, raised, calls,
                   touched, first>>

\* ------------------------------------------------------ get_extension_info
\* tag = run_git_command(repo_root, ["git", "tag", "--points-at", "HEAD"])
ExtensionTag ==
    /\ pc = "tag"
    /\ \E o \in GitOutcomes("tag") :
        /\ Answers("tag", o)
        /\ AfterGit("tag", o, "commit")
        /\ probed' = Append(probed, <<"tag", o>>)
        /\ tag' = IF GitReturns(o) THEN RunGitCommand(o) ELSE tag
    /\ UNCHANGED <<args, env, now, run, git_describe, commit, actual_version, idx, dir_seen,
                   duckdb_info, short_commit, extension_info, metadata, dirs, files,
                   files0, stdout, stderr, exit_code, touched, first>>

\* commit = run_git_command(repo_root, ["git", "rev-parse", "HEAD"])
ExtensionCommit ==
    /\ pc = "commit"
    /\ \E o \in GitOutcomes("commit") :
        /\ Answers("commit", o)
        /\ AfterGit("commit", o, "short_commit")
        /\ probed' = Append(probed, <<"commit", o>>)
        /\ commit' = IF GitReturns(o) THEN RunGitCommand(o) ELSE commit
    /\ UNCHANGED <<args, env, now, run, git_describe, actual_version, idx, dir_seen,
                   duckdb_info, tag, short_commit, extension_info, metadata, dirs, files,
                   files0, stdout, stderr, exit_code, touched, first>>

\* short_commit = run_git_command(repo_root, ["git", "rev-parse", "--short", "HEAD"])
ExtensionShortCommit ==
    /\ pc = "short_commit"
    /\ \E o \in GitOutcomes("short_commit") :
        /\ Answers("short_commit", o)
        /\ AfterGit("short_commit", o, "extension_return")
        /\ probed' = Append(probed, <<"short_commit", o>>)
        /\ short_commit' = IF GitReturns(o) THEN RunGitCommand(o) ELSE short_commit
    /\ UNCHANGED <<args, env, now, run, git_describe, commit, actual_version, idx, dir_seen,
                   duckdb_info, tag, extension_info, metadata, dirs, files,
                   files0, stdout, stderr, exit_code, touched, first>>

\* version = tag if tag and tag != "unknown" else short_commit
Version(t, short) == IF Truthy(t) /\ t # Unknown THEN t ELSE short

\* return {"version": version, "commit": commit}
ExtensionReturn ==
    /\ pc = "extension_return"
    /\ extension_info' = [version |-> Version(tag, short_commit), commit |-> commit]
    /\ tag' = None /\ short_commit' = None /\ commit' = None
    /\ pc' = "metadata"
    /\ UNCHANGED <<args, env, now, run, git_describe, actual_version, idx, dir_seen, probed,
                   duckdb_info, metadata, dirs, files, files0, stdout, stderr, exit_code,
                   raised, calls, touched, first>>

\* --------------------------------------------------------- create_metadata
\* the dict with the build date appended to the extension's version
Metadata_DatedVersion(a, dinfo, einfo, t) ==
    <<  <<"extension_name", a.extension_name>>,
        <<"extension_version", einfo.version \o <<"-">> \o Strftime(t)>>,
        <<"extension_commit", einfo.commit>>,
        <<"duckdb_version", dinfo.version>>,
        <<"duckdb_git_describe", dinfo.git_describe>>,
        <<"duckdb_commit", dinfo.commit>>,
        <<"platform", a.platform>>,
        <<"build_type", a.build_type>>,
        <<"build_date", Strftime(t)>>,
        <<"workflow_run_id", OrEmpty(a.workflow_run_id)>>,
        <<"ci_tools_version", OrEmpty(a.ci_tools_version)>>  >>

\* the dict of lines 103-115, built at clock reading t
Metadata(a, dinfo, einfo, t) ==
    <<  <<"extension_name", a.extension_name>>,
        <<"extension_version", einfo.version>>,
        <<"extension_commit", einfo.commit>>,
        <<"duckdb_version", dinfo.version>>,
        <<"duckdb_git_describe", dinfo.git_describe>>,
        <<"duckdb_commit", dinfo.commit>>,
        <<"platform", a.platform>>,
        <<"build_type", a.build_type>>,
        <<"build_date", Strftime(t)>>,
        <<"workflow_run_id", OrEmpty(a.workflow_run_id)>>,
        <<"ci_tools_version", OrEmpty(a.ci_tools_version)>>  >>

\* metadata = {...}, reading the clock
BuildMetadata ==
    /\ pc = "metadata"
    /\ \E t \in now .. MaxTime :
        /\ now' = t
        /\ metadata' = Metadata(args, duckdb_info, extension_info, t)
    /\ probed' = <<>>
    /\ pc' = "mkdir"
    /\ UNCHANGED <<args, env, run, git_describe, commit, actual_version, idx, dir_seen,
                   duckdb_info, tag, short_commit, extension_info, dirs, files, files0,
                   stdout, stderr, exit_code, raised, calls, touched, first>>

\* output_dir.mkdir(parents=True, exist_ok=True)
MakeOutputDir ==
    /\ pc = "mkdir"
    /\ \E o \in FsOutcomes :
        /\ Answers("mkdir", o)
        /\ IF o[1] = "ok"
           THEN /\ dirs' = dirs \cup {<<Build>>, OutputDir(args.build_type)}
                /\ pc' = "open"
                /\ raised' = raised
           ELSE /\ pc' = "except"
                /\ raised' = <<"mkdir", o[1]>>
                /\ dirs' = dirs
    /\ UNCHANGED <<args, env, now, run, git_describe, commit, actual_version, idx, dir_seen, probed,
                   duckdb_info, tag, short_commit, extension_info, metadata, files, files0,
                   stdout, stderr, exit_code, calls, touched, first>>

\* open(output_file, 'w'): the file is created or truncated
OpenOutputFile ==
    /\ pc = "open"
    /\ \E o \in FsOutcomes :
        /\ Answers("open", o)
        /\ IF o[1] = "ok"
           THEN /\ files' = [files EXCEPT ![OutputFile(args.build_type)] =
                                              [exists |-> TRUE, data |-> <<>>]]
                /\ touched' = touched \cup {OutputFile(args.build_type)}
                /\ pc' = "dump"
                /\ raised' = raised
           ELSE /\ pc' = "except"
                /\ raised' = <<"open", o[1]>>
                /\ UNCHANGED <<files, touched>>
    /\ UNCHANGED <<args, env, now, run, git_describe, commit, actual_version, idx, dir_seen, probed,
                   duckdb_info, tag, short_commit, extension_info, metadata, dirs, files0,
                   stdout, stderr, exit_code, calls, first>>

\* what a write that fails leaves in the file: nothing, or all but the last member
Partial(d) == {<<>>, SubSeq(d, 1, Len(d) - 1)}

\* json.dump(metadata, f, indent=2), and the file is closed
DumpMetadata ==
    /\ pc = "dump"
    /\ \E o \in FsOutcomes :
        /\ Answers("dump", o)
        /\ IF o[1] = "ok"
           THEN /\ files' = [files EXCEPT ![OutputFile(args.build_type)].data = Dumps(metadata)]
                /\ pc' = "print_created"
                /\ raised' = raised
           ELSE /\ \E d \in Partial(Dumps(metadata)) :
                     files' = [files EXCEPT ![OutputFile(args.build_type)].data = d]
                /\ pc' = "except"
                /\ raised' = <<"dump", o[1]>>
    /\ UNCHANGED <<args, env, now, run, git_describe, commit, actual_version, idx, dir_seen, probed,
                   duckdb_info, tag, short_commit, extension_info, metadata, dirs, files0,
                   stdout, stderr, exit_code, calls, touched, first>>

\* print(f"Created metadata file: {output_file}")
PrintCreated ==
    /\ pc = "print_created"
    /\ stdout' = Append(stdout, [line |-> "Created metadata file",
                                 path |-> OutputFile(args.build_type), json |-> <<>>])
    /\ pc' = "print_json"
    /\ UNCHANGED <<args, env, now, run, git_describe, commit, actual_version, idx, dir_seen, probed,
                   duckdb_info, tag, short_commit, extension_info, metadata, dirs, files,
                   files0, stderr, exit_code, raised, calls, touched, first>>

\* print(json.dumps(metadata, indent=2))
PrintJson ==
    /\ pc = "print_json"
    /\ stdout' = Append(stdout, [line |-> "json", path |-> <<>>, json |-> Dumps(metadata)])
    /\ pc' = "return"
    /\ UNCHANGED <<args, env, now, run, git_describe, commit, actual_version, idx, dir_seen, probed,
                   duckdb_info, tag, short_commit, extension_info, metadata, dirs, files,
                   files0, stderr, exit_code, raised, calls, touched, first>>

\* return 0, which main returns to sys.exit
Return ==
    /\ pc = "return"
    /\ exit_code' = 0
    /\ pc' = "exit"
    /\ UNCHANGED <<args, env, now, run, git_describe, commit, actual_version, idx, dir_seen, probed,
                   duckdb_info, tag, short_commit, extension_info, metadata, dirs, files,
                   files0, stdout, stderr, raised, calls, touched, first>>

ErrorCreating == "Error creating metadata"

\* the handler returning 0
Except_ExitsZero ==
    /\ pc = "except"
    /\ stderr' = Append(stderr, ErrorCreating)
    /\ exit_code' = 0
    /\ pc' = "exit"
    /\ UNCHANGED <<args, env, now, run, git_describe, commit, actual_version, idx, dir_seen, probed,
                   duckdb_info, tag, short_commit, extension_info, metadata, dirs, files,
                   files0, stdout, raised, calls, touched, first>>

\* except Exception as e: print(f"Error creating metadata: {e}", file=sys.stderr); return 1
Except ==
    /\ pc = "except"
    /\ stderr' = Append(stderr, ErrorCreating)
    /\ exit_code' = 1
    /\ pc' = "exit"
    /\ UNCHANGED <<args, env, now, run, git_describe, commit, actual_version, idx, dir_seen, probed,
                   duckdb_info, tag, short_commit, extension_info, metadata, dirs, files,
                   files0, stdout, raised, calls, touched, first>>

Next ==
    \/ ParseArgs
    \/ CheckDuckdbDir
    \/ DuckdbDescribe
    \/ DuckdbCommit
    \/ ProbeBinary
    \/ DuckdbReturn
    \/ ExtensionTag
    \/ ExtensionCommit
    \/ ExtensionShortCommit
    \/ ExtensionReturn
    \/ BuildMetadata
    \/ MakeOutputDir
    \/ OpenOutputFile
    \/ DumpMetadata
    \/ PrintCreated
    \/ PrintJson
    \/ Return
    \/ Except

\* one invocation, the environment answering every probe as it likes
Spec == Init /\ [][Next]_vars

\* every step of the process is taken as long as one is possible; a subprocess the
\* process waits for need never return
FairSpec == Spec /\ WF_vars(Next)

\* ----------------------------------------------- the tool run again
\* the answers of an environment that does not change between invocations
FixedOutcomes(p) ==
    CASE p = "duckdb_dir" -> DirOutcomes
      [] p = "tag" -> {<<"ok", <<>>>>, <<"ok", <<"t", "\n">>>>, <<"nonzero", <<>>>>}
      [] p \in {"describe", "commit"} ->
            {<<"ok", o>> : o \in GitStdout(p)} \cup {<<"notfound", <<>>>>}
      [] p \in {"duckdb_commit", "short_commit"} -> {<<"ok", o>> : o \in GitStdout(p)}
      [] p = "duckdb" -> {<<"missing", <<>>>>, <<"timeout", <<>>>>, <<"ok", <<"v", " ", "v">>>>}
      [] p = "duckdb.exe" -> {<<"missing", <<>>>>, <<"ok", <<" ", "v">>>>}
      [] p = "mkdir" -> FsOutcomes
      [] p \in {"open", "dump"} -> {<<"ok", <<>>>>}

FixedEnvs ==
    {[p \in Probes |->
        CASE p = "duckdb_dir" -> d
          [] p = "describe" -> g1
          [] p = "commit" -> g2
          [] p = "tag" -> g3
          [] p = "duckdb" -> b1
          [] p = "duckdb.exe" -> b2
          [] p = "mkdir" -> m
          [] OTHER -> CHOOSE o \in FixedOutcomes(p) : TRUE] :
        d \in FixedOutcomes("duckdb_dir"), g1 \in FixedOutcomes("describe"),
        g2 \in FixedOutcomes("commit"), g3 \in FixedOutcomes("tag"),
        b1 \in FixedOutcomes("duckdb"), b2 \in FixedOutcomes("duckdb.exe"),
        m \in FixedOutcomes("mkdir")}

\* the command lines of the invocations that are repeated
RerunArgs ==
    {a \in ArgSpace : /\ a.extension_name # None /\ a.platform # None
                      /\ (a.ci_tools_version = None <=> a.workflow_run_id = None)
                      /\ (a.build_type = None => a.ci_tools_version = None)}

InitRerun ==
    /\ args \in RerunArgs
    /\ env \in FixedEnvs
    /\ now = 0
    /\ run = 1
    /\ files = [f \in AllFiles |-> Absent]
    /\ dirs = {}
    /\ files0 = files
    /\ first = [exit_code |-> -1, metadata |-> <<>>, touched |-> {}]
    /\ Fresh

\* the process has exited and the same command line is run again
Rerun ==
    /\ pc = "exit"
    /\ run < MaxRuns
    /\ run' = run + 1
    /\ first' = [exit_code |-> exit_code, metadata |-> metadata, touched |-> touched]
    /\ files0' = files
    /\ pc' = "parse"
    /\ git_describe' = None /\ commit' = None /\ actual_version' = None
    /\ idx' = 0 /\ dir_seen' = "" /\ probed' = <<>>
    /\ duckdb_info' = NoDuckdbInfo
    /\ tag' = None /\ short_commit' = None
    /\ extension_info' = NoInfo
    /\ metadata' = <<>>
    /\ stdout' = <<>> /\ stderr' = <<>>
    /\ exit_code' = -1
    /\ raised' = <<>>
    /\ calls' = <<>>
    /\ touched' = {}
    /\ UNCHANGED <<args, env, now, dirs, files>>

NextRerun == Next \/ Rerun

SpecRerun == InitRerun /\ [][NextRerun]_vars

\* ===================================================================== claims
\* the command line omits a required option
OmitsRequired == args.extension_name = None \/ args.build_type = None \/ args.platform = None

\* build/<build_type>/metadata.json
OutPath == << <<"build">>, args.build_type, <<"metadata.json">> >>

\* how often x occurs in seq
Count(seq, x) == Cardinality({i \in DOMAIN seq : seq[i] = x})

DuckdbCalls == {"describe", "duckdb_commit", "duckdb", "duckdb.exe"}
ExtensionCalls == {"tag", "commit", "short_commit"}
IsExtensionCall(p) == p \in ExtensionCalls
IsBinaryProbe(e) == e[1] \in {"duckdb", "duckdb.exe"}

\* a JSON string: a str between quotes
IsJsonString(v) ==
    /\ Len(v) >= 2
    /\ v[1] = "\"" /\ v[Len(v)] = "\""
    /\ \A i \in 2 .. Len(v) - 1 : v[i] \in Char

\* the file has been written and closed by this invocation
Written == pc \in {"print_created", "print_json", "return"} \/ (pc = "exit" /\ exit_code = 0)

ElevenKeys == <<"extension_name", "extension_version", "extension_commit", "duckdb_version",
                "duckdb_git_describe", "duckdb_commit", "platform", "build_type",
                "build_date", "workflow_run_id", "ci_tools_version">>

\* C1: the record create_metadata writes has exactly the eleven keys, each mapped to
\* a string (in the dict and in the file), whatever the arguments and the outcomes of
\* the probes; an omitted workflow_run_id or ci_tools_version is the empty string.
C1_ElevenStrings ==
    Written =>
        LET d == files[OutPath].data
        IN  /\ Len(d) = 11 /\ Len(metadata) = 11
            /\ \A i \in 1 .. 11 :
                /\ d[i][1] = ElevenKeys[i] /\ metadata[i][1] = ElevenKeys[i]
                /\ IsJsonString(d[i][2])
                /\ IsStr(metadata[i][2])
            /\ (args.workflow_run_id = None => d[10][2] = <<"\"", "\"">>)
            /\ (args.ci_tools_version = None => d[11][2] = <<"\"", "\"">>)

C1_Witness ==
    /\ pc = "exit" /\ exit_code = 0
    /\ args.workflow_run_id = None /\ args.ci_tools_version = None
    /\ dir_seen = "repo"
    /\ metadata[4][2] = <<"v">>

\* C2 (as claimed): no failure of a git command or of the probe of the built binary
\* propagates; the only exceptions that reach main's handler are the filesystem's.
C2_NoProbeFailurePropagates == raised = <<>> \/ raised[1] \in {"mkdir", "open", "dump"}

\* C3 (as claimed), in the runs in which no subprocess raised or hung: without
\* ./duckdb or its .git the three fields are "unknown", nothing is run against the
\* dependency, a warning is written, and the process exits 0 with the file written.
C3_Original ==
    (/\ pc = "exit" /\ dir_seen \in {"absent", "nogit"}
     /\ (raised = <<>> \/ raised[1] \in {"mkdir", "open", "dump"}))
        => /\ duckdb_info = [git_describe |-> Unknown, version |-> Unknown, commit |-> Unknown]
           /\ \A p \in DuckdbCalls : Count(calls, p) = 0
           /\ Len(stderr) >= 1 /\ stderr[1] \in {WarnNotFound, WarnNotGit}
           /\ exit_code = 0
           /\ files[OutPath].exists /\ Len(files[OutPath].data) = 11

\* C3 (amended): without ./duckdb or its .git, get_duckdb_info returns the three
\* placeholders, runs nothing against the dependency and writes a warning; the run
\* goes on to the extension's queries, and exits 0 with the three fields "unknown"
\* in the file unless a later step fails (a git command of the extension raises or
\* never returns, or the output directory or file cannot be written).
C3_MissingDependency ==
    dir_seen \in {"absent", "nogit"} =>
        /\ duckdb_info = [git_describe |-> Unknown, version |-> Unknown, commit |-> Unknown]
        /\ \A p \in DuckdbCalls : Count(calls, p) = 0
        /\ Len(stderr) >= 1
        /\ stderr[1] = (IF dir_seen = "absent" THEN WarnNotFound ELSE WarnNotGit)
        /\ pc \notin {"parse", "duckdb_dir", "describe", "duckdb_commit", "binary", "duckdb_return"}
        /\ (pc = "blocked" => calls[Len(calls)] \in ExtensionCalls)
        /\ (raised # <<>> => raised[1] \in ExtensionCalls \cup {"mkdir", "open", "dump"})
        /\ (pc = "exit" => (exit_code = 0 <=> raised = <<>>))
        /\ (Written =>
               LET d == files[OutPath].data
               IN  \A i \in 4 .. 6 : d[i] = <<ElevenKeys[i], <<"\"">> \o Unknown \o <<"\"">> >>)

C3_Witness ==
    /\ pc = "exit" /\ exit_code = 0 /\ dir_seen = "nogit"
    /\ calls = <<"tag", "commit", "short_commit">>

\* the line a git command printed before its newline
Line(o) == SelectSeq(o[2], LAMBDA c : c # "\n")

\* C4 (as claimed): extension_version is the tag at the current commit when there is
\* one, the short commit hash when there is none, and never empty; extension_commit
\* is what the full-hash query returned.
C4_TagElseShortCommit ==
    (pc = "metadata") =>
        LET to == probed[1][2]
            co == probed[2][2]
            so == probed[3][2]
        IN  /\ (to[1] = "ok" /\ Line(to) # <<>>) => extension_info.version = Line(to)
            /\ (to[1] = "ok" /\ Line(to) = <<>>) =>
                    extension_info.version = (IF so[1] = "ok" THEN Line(so) ELSE Unknown)
            /\ extension_info.version # <<>>
            /\ extension_info.commit = (IF co[1] = "ok" THEN Line(co) ELSE Unknown)

C6_NothingDone ==
    OmitsRequired =>
        /\ pc \in {"parse", "exit"}
        /\ (pc = "exit" => exit_code \notin {0, -1})
        /\ calls = <<>>
        /\ touched = {}
        /\ files = files0
        /\ dirs = DirsOf(files0)
        /\ metadata = <<>> /\ stdout = <<>>

C6_Witness ==
    /\ pc = "exit" /\ exit_code = 2
    /\ args.platform = None /\ args.extension_name # None /\ args.build_type # None
    /\ \E f \in DOMAIN files0 : files0[f].exists /\ files[f] = files0[f]

\* the positions before the record is assembled
BeforeRecord == {"parse", "duckdb_dir", "describe", "duckdb_commit", "binary",
                 "duckdb_return", "tag", "commit", "short_commit", "extension_return",
                 "metadata"}

\* C7 (as claimed), in the runs that enter create_metadata and in which no subprocess
\* raised or hung: when the process has exited, the record has been assembled and
\* written to build/<build_type>/metadata.json, and to no other file.
C7_Original ==
    (/\ pc = "exit" /\ ~OmitsRequired
     /\ (raised = <<>> \/ raised[1] \in {"mkdir", "open", "dump"}))
        => /\ Len(metadata) = 11
           /\ touched = {OutPath}
           /\ files[OutPath] = [exists |-> TRUE, data |-> Dumps(metadata)]

C7_State ==
    ~OmitsRequired =>
        /\ metadata # <<>> =>
                /\ pc \notin BeforeRecord
                /\ SelectSeq(calls, IsExtensionCall) = <<"tag", "commit", "short_commit">>
        /\ touched \subseteq {OutPath}
        /\ \A f \in DOMAIN files : f # OutPath => files[f] = files0[f]
        /\ (touched = {} => files = files0)
        /\ (pc = "exit" /\ exit_code = 0) =>
                /\ Len(metadata) = 11
                /\ touched = {OutPath}
                /\ files[OutPath] = [exists |-> TRUE, data |-> Dumps(metadata)]
                /\ {<< <<"build">> >>, << <<"build">>, args.build_type >>} \subseteq dirs
        /\ \A i \in DOMAIN stdout :
                /\ touched = {OutPath}
                /\ files[OutPath] = [exists |-> TRUE, data |-> Dumps(metadata)]
                /\ stdout[i].line = "json" => stdout[i].json = files[OutPath].data
                /\ stdout[i].line # "json" => stdout[i].path = OutPath

\* C7 (amended): the record is assembled at most once, after all probes have
\* finished, and is not changed afterwards; no run touches a file other than
\* build/<build_type>/metadata.json; in every run that exits 0 the record has been
\* written there (the directories created) before the exit, and what is echoed on
\* standard output is the file's content, echoed only after the write.  A run that
\* fails may end with the record not assembled or not written, or with the file
\* truncated.
C7_RecordOnceOneFile ==
    /\ []C7_State
    /\ [][metadata # <<>> => (metadata' = metadata /\ calls' = calls)]_vars
    /\ [][(~OmitsRequired /\ metadata # <<>> /\ files[OutPath].data = Dumps(metadata))
            => files' = files]_vars

C7_Witness ==
    /\ pc = "exit" /\ exit_code = 0
    /\ files0[OutPath] = Stale
    /\ files[OutPath].data = Dumps(metadata)
    /\ Len(stdout) = 2

\* C8: a second run with the same arguments in the same environment, after a first
\* run that wrote its file, writes the same path and leaves its own record in the
\* file; the two records agree in every field but build_date.
C8_RerunSameRecord ==
    (run >= 2 /\ pc = "exit" /\ first.exit_code = 0) =>
        /\ exit_code = 0
        /\ touched = first.touched /\ touched = {OutPath}
        /\ files[OutPath] = [exists |-> TRUE, data |-> Dumps(metadata)]
        /\ Len(metadata) = 11 /\ Len(first.metadata) = 11
        /\ \A i \in 1 .. 11 :
            /\ metadata[i][1] = first.metadata[i][1]
            /\ metadata[i][1] # "build_date" => metadata[i][2] = first.metadata[i][2]

C8_Witness ==
    /\ run = 2 /\ pc = "exit" /\ exit_code = 0 /\ first.exit_code = 0
    /\ metadata[9] # first.metadata[9]
    /\ metadata[4][2] = <<"v">>

\* the outcomes of the candidates probed by get_duckdb_info, in order
Candidates == SelectSeq(probed, IsBinaryProbe)

\* the candidate exited 0 and printed something that is not whitespace
PrintsVersion(o) == o[1] = "ok" /\ \E i \in DOMAIN o[2] : o[2][i] \notin {" ", "\n"}

\* the first whitespace-separated token of s
FirstToken(s) ==
    LET a == CHOOSE i \in DOMAIN s :
                s[i] \notin {" ", "\n"} /\ \A j \in 1 .. i - 1 : s[j] \in {" ", "\n"}
        b == CHOOSE j \in a .. Len(s) :
                /\ \A k \in a .. j : s[k] \notin {" ", "\n"}
                /\ j = Len(s) \/ s[j + 1] \in {" ", "\n"}
    IN  SubSeq(s, a, b)

\* C9: with the dependency repository present, the candidates are probed in the order
\* duckdb, duckdb.exe; duckdb_version is the first token of the first candidate that
\* exits 0 with a version, no candidate is probed after it, a candidate that is
\* missing, times out, exits non-zero or prints only whitespace is passed over, and
\* duckdb_version is "unknown" when no candidate succeeds.
C9_BinaryProbe ==
    (pc = "duckdb_return") =>
        LET c == Candidates
            version == actual_version
            good == {k \in DOMAIN c : PrintsVersion(c[k][2])}
        IN  /\ Len(c) \in {1, 2}
            /\ c[1][1] = "duckdb"
            /\ Len(c) = 2 => c[2][1] = "duckdb.exe"
            /\ IF good = {}
               THEN version = Unknown /\ Len(c) = 2
               ELSE /\ good = {Len(c)}
                    /\ version = FirstToken(c[Len(c)][2][2])
            /\ SelectSeq(calls, LAMBDA p : p \in {"duckdb", "duckdb.exe"})
                  = [k \in 1 .. Len(SelectSeq(c, LAMBDA e : e[2][1] # "missing")) |->
                        SelectSeq(c, LAMBDA e : e[2][1] # "missing")[k][1]]

C9_Witness ==
    /\ pc = "duckdb_return"
    /\ Candidates = << <<"duckdb", <<"ok", <<" ", " ">>>>>>,
                       <<"duckdb.exe", <<"ok", <<" ", "v", " ">>>>>> >>
    /\ actual_version = <<"v">>

\* C10 (as claimed): each probe is attempted at most once, a run that enters
\* create_metadata runs exactly three git commands in the extension's repository,
\* and no subprocess that never returns can hang the tool.
C10_Original ==
    /\ \A p \in DuckdbCalls \cup ExtensionCalls : Count(calls, p) <= 1
    /\ (pc = "exit" /\ ~OmitsRequired) =>
            SelectSeq(calls, IsExtensionCall) = <<"tag", "commit", "short_commit">>
    /\ pc # "blocked"

C10_Counts ==
    /\ \A p \in DuckdbCalls \cup ExtensionCalls : Count(calls, p) <= 1
    /\ Len(calls) <= 7
    /\ metadata # <<>> => SelectSeq(calls, IsExtensionCall) = <<"tag", "commit", "short_commit">>
    /\ pc = "blocked" => calls[Len(calls)] \in {"describe", "duckdb_commit"} \cup ExtensionCalls

\* C10 (amended): each probe is attempted at most once (at most two git commands in
\* the dependency repository, at most two candidates, at most three git commands in
\* the extension's repository, and exactly three in a run that assembles the record);
\* only the wait for the built binary is bounded; a git command is waited for without
\* a timeout, so the process either exits or is left waiting for a git command that
\* never returns.
C10_SinglePass ==
    /\ []C10_Counts
    /\ <>(pc \in {"exit", "blocked"})

C10_Witness ==
    /\ pc = "exit" /\ exit_code = 0
    /\ calls = <<"describe", "duckdb_commit", "duckdb", "duckdb.exe", "tag", "commit",
                 "short_commit">>

=============================================================================
